---- MODULE Spec2Model ----
(***************************************************************************)
(* Cross-page selection tracker of the Artworks data table                 *)
(* (src/src/App.tsx, first App component, lines 34-284).  Records are      *)
(* modelled by their identifier, the only field the selection logic reads. *)
(* The text of the "select number of rows" input (selectCount) is read by  *)
(* handleCustomSelection alone and is modelled as that handler's input.    *)
(***************************************************************************)
EXTENDS Bags, FiniteSets, Integers, Sequences, TLC

\* ---- bounds ----
Total == 3          \* records in the remote collection
PageSize == 2       \* records per page (the last page may be shorter)
MaxInFlight == 2    \* fetchData calls suspended at the same time

VARIABLES
  artworks,           \* useState<Artwork[]>: ids of the loaded page, in page order
  loading,            \* useState<boolean>
  totalRecords,       \* useState<number>
  currentPage,        \* useState<number>: the latest requested page index
  selectedRows,       \* useState<Artwork[]>: the Page Selection View
  globalSelectedIds,  \* useState<Set<number>>: the Selection Set
  inflight,           \* bag of fetchData calls suspended at their await
  lastOp,             \* history: the handler that ran last
  hist,               \* history: the views before the handleSelectAll calls of the current run
  sinceFail,          \* history: a fetch failed and no Selection Mutator ran since
  track               \* history: progress of one selected record through "away and back"

vars == <<artworks, loading, totalRecords, currentPage, selectedRows,
          globalSelectedIds, inflight, lastOp, hist, sinceFail, track>>

\* ---- the remote collection (api.artic.edu, read-only, paged) ----
Min(a, b) == IF a < b THEN a ELSE b
NumPages == (Total + PageSize - 1) \div PageSize
PageIndexes == 1..NumPages
AllIds == 1..Total
Page(p) == [i \in 1..(Min(p * PageSize, Total) - (p - 1) * PageSize) |-> (p - 1) * PageSize + i]
PageOf(id) == ((id - 1) \div PageSize) + 1

\* ---- array / Set helpers ----
Ids(rows) == {rows[i] : i \in DOMAIN rows}
RECURSIVE Filter(_, _)
Filter(rows, set) ==
  IF rows = <<>> THEN <<>>
  ELSE IF Head(rows) \in set THEN <<Head(rows)>> \o Filter(Tail(rows), set)
       ELSE Filter(Tail(rows), set)
Slice(rows, n) == SubSeq(rows, 1, Min(n, Len(rows)))
SubSeqsOf(rows) == {Filter(rows, s) : s \in SUBSET Ids(rows)}

\* ---- parseInt(selectCount), radix 10 ----
Digits == <<"0", "1", "2", "3", "4", "5", "6", "7", "8", "9">>
IsDigit(c) == \E d \in DOMAIN Digits : Digits[d] = c
DigitVal(c) == (CHOOSE d \in DOMAIN Digits : Digits[d] = c) - 1
NaN == [nan |-> TRUE, val |-> 0]
Num(n) == [nan |-> FALSE, val |-> n]
isNaN(x) == x.nan
RECURSIVE SkipSpace(_)
SkipSpace(s) == IF s # <<>> /\ Head(s) = " " THEN SkipSpace(Tail(s)) ELSE s
RECURSIVE ReadDigits(_, _, _)
\* acc: value so far; seen: whether a digit was consumed
ReadDigits(s, acc, seen) ==
  IF s # <<>> /\ IsDigit(Head(s))
  THEN ReadDigits(Tail(s), acc * 10 + DigitVal(Head(s)), TRUE)
  ELSE IF seen THEN Num(acc) ELSE NaN
parseInt(str) ==
  LET s == SkipSpace(str)
      neg == s # <<>> /\ Head(s) = "-"
      body == IF s # <<>> /\ Head(s) \in {"-", "+"} THEN Tail(s) ELSE s
      r == ReadDigits(body, 0, FALSE)
  IN IF isNaN(r) THEN NaN ELSE IF neg THEN Num(0 - r.val) ELSE r

\* texts the "select number of rows" input may hold when Submit is clicked
SelectCountInputs ==
  { <<>>, <<"x", "1">>, <<"0">>, <<"-", "1">>, <<"1">>, <<"2">>, <<" ", "1", "2", "x">> }

\* ---- fetchData ----
\* A suspended call: its page argument and what its closure captured.  The
\* closure holds the globalSelectedIds of the render that started the call; the
\* continuation reads it only through has(id) for the records of the page it
\* asked for, so the call carries that part of the captured Set.
Call(page, ids) == [page |-> page, ids |-> ids \cap Ids(Page(page))]
InFlight == BagCardinality(inflight)
\* what the await produces: a page, a body without data, or a rejection
Outcomes == {"fetchOk", "fetchNoData", "fetchError"}
Mutators == {"onSelectionChange", "handleSelectAll", "handleCustomSelection"}

View == [rows |-> selectedRows, ids |-> globalSelectedIds]
NoTrack == [id |-> 0, phase |-> 0]

Init ==
  /\ artworks = <<>>
  /\ loading = TRUE
  /\ totalRecords = 0
  /\ currentPage = 1
  /\ selectedRows = <<>>
  /\ globalSelectedIds = {}
  /\ inflight = SetToBag({Call(1, {})})
  /\ lastOp = "mount"
  /\ hist = <<>>
  /\ sinceFail = FALSE
  /\ track = NoTrack

\* setCurrentPage(event.page + 1); the [currentPage] effect then calls fetchData
onPageChange(newPage) ==
  /\ currentPage' = newPage
  /\ IF newPage # currentPage
     THEN /\ InFlight < MaxInFlight
          /\ loading' = TRUE
          /\ inflight' = inflight (+) SetToBag({Call(newPage, globalSelectedIds)})
     ELSE UNCHANGED <<loading, inflight>>
  /\ lastOp' = "onPageChange"
  /\ UNCHANGED <<artworks, totalRecords, selectedRows, globalSelectedIds>>

\* as fetchDone, but a loaded page also overwrites the Selection Set with its view
fetchDone_Resync(call, outcome) ==
  /\ BagIn(call, inflight)
  /\ inflight' = inflight (-) SetToBag({call})
  /\ CASE outcome = "fetchOk" ->
            /\ artworks' = Page(call.page)
            /\ totalRecords' = Total
            /\ selectedRows' = Filter(Page(call.page), call.ids)
            /\ globalSelectedIds' = Ids(selectedRows')
       [] outcome = "fetchNoData" ->
            /\ artworks' = <<>>
            /\ totalRecords' = 0
            /\ selectedRows' = <<>>
            /\ UNCHANGED globalSelectedIds
       [] outcome = "fetchError" ->
            /\ artworks' = <<>>
            /\ totalRecords' = 0
            /\ UNCHANGED <<selectedRows, globalSelectedIds>>
  /\ loading' = FALSE
  /\ lastOp' = outcome
  /\ UNCHANGED currentPage

\* the continuation of fetchData after its await
fetchDone(call, outcome) ==
  /\ BagIn(call, inflight)
  /\ inflight' = inflight (-) SetToBag({call})
  /\ CASE outcome = "fetchOk" ->
            /\ artworks' = Page(call.page)
            /\ totalRecords' = Total
            /\ selectedRows' = Filter(Page(call.page), call.ids)
       [] outcome = "fetchNoData" ->
            /\ artworks' = <<>>
            /\ totalRecords' = 0
            /\ selectedRows' = <<>>
       [] outcome = "fetchError" ->
            /\ artworks' = <<>>
            /\ totalRecords' = 0
            /\ UNCHANGED selectedRows
  /\ loading' = FALSE
  /\ lastOp' = outcome
  /\ UNCHANGED <<currentPage, globalSelectedIds>>

\* as onSelectionChange, but starting from new Set() instead of a copy
onSelectionChange_Fresh(newSelection) ==
  /\ selectedRows' = newSelection
  /\ globalSelectedIds' = Ids(newSelection)
  /\ lastOp' = "onSelectionChange"
  /\ UNCHANGED <<artworks, loading, totalRecords, currentPage, inflight>>

\* as onSelectionChange, but without deleting the page's ids first
onSelectionChange_AddOnly(newSelection) ==
  /\ selectedRows' = newSelection
  /\ globalSelectedIds' = globalSelectedIds \cup Ids(newSelection)
  /\ lastOp' = "onSelectionChange"
  /\ UNCHANGED <<artworks, loading, totalRecords, currentPage, inflight>>

onSelectionChange(newSelection) ==
  /\ selectedRows' = newSelection
  /\ globalSelectedIds' = (globalSelectedIds \ Ids(artworks)) \cup Ids(newSelection)
  /\ lastOp' = "onSelectionChange"
  /\ UNCHANGED <<artworks, loading, totalRecords, currentPage, inflight>>

\* as handleSelectAll, but without the deselect branch
handleSelectAll_SelectOnly ==
  /\ globalSelectedIds' = globalSelectedIds \cup Ids(artworks)
  /\ selectedRows' = artworks
  /\ lastOp' = "handleSelectAll"
  /\ UNCHANGED <<artworks, loading, totalRecords, currentPage, inflight>>

handleSelectAll ==
  /\ IF Len(selectedRows) = Len(artworks)
     THEN /\ globalSelectedIds' = globalSelectedIds \ Ids(artworks)
          /\ selectedRows' = <<>>
     ELSE /\ globalSelectedIds' = globalSelectedIds \cup Ids(artworks)
          /\ selectedRows' = artworks
  /\ lastOp' = "handleSelectAll"
  /\ UNCHANGED <<artworks, loading, totalRecords, currentPage, inflight>>

\* as handleCustomSelection, but adding to a copy of the old Set
handleCustomSelection_Additive(selectCount) ==
  LET count == parseInt(selectCount) IN
  /\ IF isNaN(count) \/ count.val <= 0
     THEN /\ lastOp' = "declined"
          /\ UNCHANGED <<globalSelectedIds, selectedRows>>
     ELSE LET currentPageSelection == Slice(artworks, count.val) IN
          /\ globalSelectedIds' = globalSelectedIds \cup Ids(currentPageSelection)
          /\ selectedRows' = currentPageSelection
          /\ lastOp' = "handleCustomSelection"
  /\ UNCHANGED <<artworks, loading, totalRecords, currentPage, inflight>>

\* as handleCustomSelection, but declining only count < 0
handleCustomSelection_ZeroPasses(selectCount) ==
  LET count == parseInt(selectCount) IN
  /\ IF isNaN(count) \/ count.val < 0
     THEN /\ lastOp' = "declined"
          /\ UNCHANGED <<globalSelectedIds, selectedRows>>
     ELSE LET currentPageSelection == Slice(artworks, count.val) IN
          /\ globalSelectedIds' = Ids(currentPageSelection)
          /\ selectedRows' = currentPageSelection
          /\ lastOp' = "handleCustomSelection"
  /\ UNCHANGED <<artworks, loading, totalRecords, currentPage, inflight>>

\* as handleCustomSelection, but going back to the first page (pageToCheck)
handleCustomSelection_Rewind(selectCount) ==
  LET count == parseInt(selectCount) IN
  /\ IF isNaN(count) \/ count.val <= 0
     THEN /\ lastOp' = "declined"
          /\ UNCHANGED <<globalSelectedIds, selectedRows, currentPage>>
     ELSE LET currentPageSelection == Slice(artworks, count.val) IN
          /\ globalSelectedIds' = Ids(currentPageSelection)
          /\ selectedRows' = currentPageSelection
          /\ currentPage' = 1
          /\ lastOp' = "handleCustomSelection"
  /\ UNCHANGED <<artworks, loading, totalRecords, inflight>>

\* selectCount, the text of the input when Submit is clicked, is the handler's
\* input; the handler ends by clearing that text, which nothing else reads.
handleCustomSelection(selectCount) ==
  LET count == parseInt(selectCount) IN
  /\ IF isNaN(count) \/ count.val <= 0
     THEN /\ lastOp' = "declined"
          /\ UNCHANGED <<globalSelectedIds, selectedRows>>
     ELSE LET currentPageSelection == Slice(artworks, count.val) IN
          /\ globalSelectedIds' = Ids(currentPageSelection)
          /\ selectedRows' = currentPageSelection
          /\ lastOp' = "handleCustomSelection"
  /\ UNCHANGED <<artworks, loading, totalRecords, currentPage, inflight>>

\* ---- history variables (read nothing back into the program) ----
HistStep ==
  hist' = IF lastOp' = "handleSelectAll"
          THEN IF Len(hist) = 2 THEN <<hist[2], View>> ELSE Append(hist, View)
          ELSE <<>>

FailStep ==
  sinceFail' = IF lastOp' = "fetchError" THEN TRUE
               ELSE IF lastOp' \in Mutators THEN FALSE
               ELSE sinceFail

\* phase 1: record selected while its page is loaded; 2: navigated to another
\* page; 3: navigated back; 4: its page has been loaded again
TrackStep ==
  LET home == PageOf(track.id)
      moved == lastOp' = "onPageChange" /\ currentPage' # currentPage
  IN
  IF track.phase = 0
  THEN \/ track' = track
       \/ /\ lastOp' \in Mutators
          /\ \E y \in (globalSelectedIds' \ globalSelectedIds) \cap Ids(artworks) :
               /\ artworks = Page(PageOf(y))
               /\ track' = [id |-> y, phase |-> 1]
  ELSE IF track.id \notin globalSelectedIds' THEN track' = NoTrack
  ELSE IF track.phase = 1 /\ moved /\ currentPage' # home
       THEN track' = [track EXCEPT !.phase = 2]
  ELSE IF track.phase = 2 /\ moved /\ currentPage' = home
       THEN track' = [track EXCEPT !.phase = 3]
  ELSE IF track.phase = 3 /\ lastOp' = "fetchOk" /\ artworks' = Page(home)
       THEN track' = [track EXCEPT !.phase = 4]
  ELSE track' = track

Idle == UNCHANGED <<hist, sinceFail, track>>

Next ==
  \/ \E p \in PageIndexes : onPageChange(p) /\ Idle
  \/ \E c \in BagToSet(inflight), o \in Outcomes : fetchDone(c, o) /\ Idle
  \/ \E n \in SubSeqsOf(artworks) : onSelectionChange(n) /\ Idle
  \/ handleSelectAll /\ Idle
  \/ \E t \in SelectCountInputs : handleCustomSelection(t) /\ Idle

Spec == Init /\ [][Next]_vars

\* the same program, remembering the views before consecutive handleSelectAll calls
ToggleHistory == HistStep /\ UNCHANGED <<sinceFail, track>>

NextToggle ==
  \/ \E p \in PageIndexes : onPageChange(p) /\ ToggleHistory
  \/ \E c \in BagToSet(inflight), o \in Outcomes : fetchDone(c, o) /\ ToggleHistory
  \/ \E n \in SubSeqsOf(artworks) : onSelectionChange(n) /\ ToggleHistory
  \/ handleSelectAll /\ ToggleHistory
  \/ \E t \in SelectCountInputs : handleCustomSelection(t) /\ ToggleHistory

SpecToggle == Init /\ [][NextToggle]_vars

\* the same program, remembering failures and one record's way across pages
NavHistory == FailStep /\ TrackStep /\ UNCHANGED hist

NextNav ==
  \/ \E p \in PageIndexes : onPageChange(p) /\ NavHistory
  \/ \E c \in BagToSet(inflight), o \in Outcomes : fetchDone(c, o) /\ NavHistory
  \/ \E n \in SubSeqsOf(artworks) : onSelectionChange(n) /\ NavHistory
  \/ handleSelectAll /\ NavHistory
  \/ \E t \in SelectCountInputs : handleCustomSelection(t) /\ NavHistory

SpecNav == Init /\ [][NextNav]_vars

\* the same program, with onSelectionChange called with any records of the
\* collection: the handler takes e.value as it comes (line 90) and never
\* compares it with artworks
AllRecords == [i \in AllIds |-> i]

NextLoose ==
  \/ \E p \in PageIndexes : onPageChange(p) /\ Idle
  \/ \E c \in BagToSet(inflight), o \in Outcomes : fetchDone(c, o) /\ Idle
  \/ \E n \in SubSeqsOf(AllRecords) : onSelectionChange(n) /\ Idle
  \/ handleSelectAll /\ Idle
  \/ \E t \in SelectCountInputs : handleCustomSelection(t) /\ Idle

SpecLoose == Init /\ [][NextLoose]_vars

\* the flags of the header checkbox
allSelected == Len(artworks) > 0 /\ Len(selectedRows) = Len(artworks)
partialSelected == Len(selectedRows) > 0 /\ Len(selectedRows) < Len(artworks)

\* ---- the second App variant (lines 320-511) ----
\* Its state, fetchData, onPageChange and onSelectionChange are those of the
\* first variant, line for line; its select-all handler and its bulk select
\* differ. showSelectDialog only shows and hides the dialog.

\* the checked property of the header checkbox
checked == Len(selectedRows) = Len(artworks) /\ Len(artworks) > 0

\* isChecked is e.target.checked, the value the click asks for
handleSelectAllV2(isChecked) ==
  /\ IF isChecked
     THEN /\ globalSelectedIds' = globalSelectedIds \cup Ids(artworks)
          /\ selectedRows' = artworks
     ELSE /\ globalSelectedIds' = globalSelectedIds \ Ids(artworks)
          /\ selectedRows' = <<>>
  /\ lastOp' = "handleSelectAll"
  /\ UNCHANGED <<artworks, loading, totalRecords, currentPage, inflight>>

\* rowsToSelect when Select is clicked: what onValueChange last stored, which
\* is 0 for an emptied field, a number from 1 up to the length of the page
\* loaded at that time, or the initial value, larger than the last page
RowsToSelectInputs == 0..(PageSize + 1)

\* as confirmSelectMultiple, but starting from new Set() instead of a copy
confirmSelectMultiple_Fresh(rowsToSelect) ==
  LET newSelection == Slice(artworks, rowsToSelect) IN
  /\ selectedRows' = newSelection
  /\ globalSelectedIds' = Ids(newSelection)
  /\ lastOp' = "confirmSelectMultiple"
  /\ UNCHANGED <<artworks, loading, totalRecords, currentPage, inflight>>

\* rowsToSelect is the handler's input; nothing else reads it
confirmSelectMultiple(rowsToSelect) ==
  LET newSelection == Slice(artworks, rowsToSelect) IN
  /\ selectedRows' = newSelection
  /\ globalSelectedIds' = (globalSelectedIds \ Ids(artworks)) \cup Ids(newSelection)
  /\ lastOp' = "confirmSelectMultiple"
  /\ UNCHANGED <<artworks, loading, totalRecords, currentPage, inflight>>

NextV2 ==
  \/ \E p \in PageIndexes : onPageChange(p) /\ Idle
  \/ \E c \in BagToSet(inflight), o \in Outcomes : fetchDone(c, o) /\ Idle
  \/ \E n \in SubSeqsOf(artworks) : onSelectionChange(n) /\ Idle
  \/ handleSelectAllV2(~checked) /\ Idle
  \/ \E k \in RowsToSelectInputs : confirmSelectMultiple(k) /\ Idle

SpecV2 == Init /\ [][NextV2]_vars

\* ======================= claims =======================
OffPage == AllIds \ Ids(artworks)
SameOffPage == \A i \in OffPage : (i \in globalSelectedIds') <=> (i \in globalSelectedIds)
Projection(rows, set) == rows = Filter(artworks, set)
\* the inputs of the claims about selectFirstN, with the count each one stands for
ValidCounts == { << <<"1">>, 1 >>, << <<"2">>, 2 >>, << <<" ", "1", "2", "x">>, 12 >> }
InvalidCounts == { <<>>, <<"x", "1">>, <<"0">>, <<"-", "1">> }
\* what a handleCustomSelection step leaves in lastOp
BulkSelectOps == {"handleCustomSelection", "declined"}

\* C1 (persistence across navigation): a record selected while its page A is
\* loaded, after the user navigated to another page and back to A without the
\* record being deselected, is in the Selection Set and in selectedRows once
\* page A has been loaded again.
C1_PersistsAcrossNavigation ==
  (track.phase = 4 /\ artworks = Page(PageOf(track.id)))
    => (track.id \in globalSelectedIds /\ track.id \in Ids(selectedRows))

\* C2 as claimed (disjoint pages untouched): every Selection Mutator step,
\* handleCustomSelection included, leaves the membership of every identifier
\* outside the loaded page as it was.
C2_EveryMutatorKeepsOtherPages ==
  [][lastOp' \in Mutators \cup {"declined"} => SameOffPage]_vars

\* C2 as amended: onSelectionChange and handleSelectAll (and a declined
\* handleCustomSelection) leave the membership of every identifier outside the
\* loaded page as it was; an accepted handleCustomSelection leaves no
\* identifier outside the loaded page selected.
C2_TogglesKeepOtherPages ==
  [][ /\ lastOp' \in {"onSelectionChange", "handleSelectAll", "declined"} => SameOffPage
      /\ lastOp' = "handleCustomSelection" => globalSelectedIds' \cap OffPage = {}
    ]_vars

\* C2 witness: handleSelectAll has just run on a loaded page while a record of
\* another page is selected.
C2_Witness ==
  /\ lastOp = "handleSelectAll"
  /\ artworks # <<>>
  /\ globalSelectedIds \cap OffPage # {}

C4_SelectFirstN ==
  [][\A e \in ValidCounts :
       (lastOp' \in BulkSelectOps /\ handleCustomSelection(e[1])) =>
         LET k == Min(e[2], Len(artworks)) IN
         /\ globalSelectedIds' = {artworks[i] : i \in 1..k}
         /\ selectedRows' = [i \in 1..k |-> artworks[i]]
         /\ UNCHANGED <<artworks, totalRecords, currentPage, inflight, loading>>
    ]_vars

\* C4 witness: handleCustomSelection has just selected fewer records than the
\* loaded page holds (n < page length).
C4_Witness ==
  /\ lastOp = "handleCustomSelection"
  /\ selectedRows # <<>>
  /\ Len(selectedRows) < Len(artworks)
  /\ globalSelectedIds = Ids(selectedRows)

\* C5 (stale-response protection): a fetchData continuation whose page is not
\* the latest requested page (currentPage) leaves artworks, totalRecords and
\* selectedRows as they were.
C5_StaleResponseDiscarded ==
  [][\A c \in BagToSet(inflight), o \in Outcomes :
       (fetchDone(c, o) /\ c.page # currentPage)
         => UNCHANGED <<artworks, totalRecords, selectedRows>>
    ]_vars

\* C6 (fetch failure degrades to an empty page): a failed fetch leaves the
\* empty page with total count 0 and the Selection Set as it was, and the
\* handler completes; a page that loads after a failure, no Selection Mutator
\* having run since, shows the records of that page that are in the Selection
\* Set.
C6_FailureKeepsSelections ==
  [][ /\ lastOp' = "fetchError" =>
           /\ artworks' = <<>>
           /\ totalRecords' = 0
           /\ globalSelectedIds' = globalSelectedIds
           /\ loading' = FALSE
      /\ (sinceFail /\ lastOp' = "fetchOk") =>
           selectedRows' = Filter(artworks', globalSelectedIds')
    ]_vars

\* C7 (invalid bulk-select input is declined): handleCustomSelection with a
\* non-numeric text or a count <= 0 changes neither the Selection Set nor
\* selectedRows nor the loaded page.
C7_InvalidCountDeclined ==
  [][\A t \in InvalidCounts :
       (lastOp' \in BulkSelectOps /\ handleCustomSelection(t)) =>
         UNCHANGED <<globalSelectedIds, selectedRows, artworks, totalRecords,
                     currentPage, inflight, loading>>
    ]_vars

\* C7 witness: a handleCustomSelection has just been declined while records are
\* selected on the loaded page and on another one.
C7_Witness ==
  /\ lastOp = "declined"
  /\ selectedRows # <<>>
  /\ globalSelectedIds \cap OffPage # {}

\* C8 (navigation never changes the Selection Set): onPageChange and every
\* outcome of a fetch leave globalSelectedIds as it was, and only the three
\* Selection Mutators change it.
C8_NavigationKeepsSelection ==
  [][ /\ lastOp' \in {"onPageChange"} \cup Outcomes => globalSelectedIds' = globalSelectedIds
      /\ globalSelectedIds' # globalSelectedIds => lastOp' \in Mutators
    ]_vars

\* C8 witness: a page has just been loaded while a record of another page is
\* selected.
C8_Witness ==
  /\ lastOp = "fetchOk"
  /\ globalSelectedIds \cap OffPage # {}

\* C9 (the Page Selection View is a projection): after every completed fetch
\* and every Selection Mutator, selectedRows is the subsequence, in page order,
\* of artworks whose identifiers are in globalSelectedIds.
C9_ViewIsProjection ==
  lastOp \in Outcomes \cup Mutators \cup {"declined"}
    => selectedRows = Filter(artworks, globalSelectedIds)

\* C11 (toggleSelection result): after onSelectionChange with a new selection N
\* drawn from the loaded page P, an identifier is in the Selection Set exactly
\* when it is in N, or it is not on P and was in the Selection Set before; the
\* handler can always run.
C11_ToggleSelectionResult ==
  [][lastOp' = "onSelectionChange" =>
       \A i \in AllIds :
         i \in globalSelectedIds' <=>
           IF i \in Ids(selectedRows') THEN TRUE
           ELSE IF i \in Ids(artworks) THEN FALSE
           ELSE i \in globalSelectedIds
    ]_vars

\* C11 witness: onSelectionChange has just left some but not all records of the
\* loaded page selected while a record of another page is selected.
C11_Witness ==
  /\ lastOp = "onSelectionChange"
  /\ selectedRows # <<>>
  /\ Len(selectedRows) < Len(artworks)
  /\ Ids(selectedRows) = globalSelectedIds \cap Ids(artworks)
  /\ globalSelectedIds \cap OffPage # {}

\* C12 (toggleSelectAllOnPage branch): handleSelectAll removes the loaded
\* page's identifiers from the Selection Set exactly when every record of the
\* page is in the Selection Set, and adds them all otherwise; on an empty page
\* it changes neither the Selection Set nor selectedRows.
C12_SelectAllBranch ==
  [][lastOp' = "handleSelectAll" =>
       IF artworks = <<>>
       THEN UNCHANGED <<globalSelectedIds, selectedRows>>
       ELSE IF Ids(artworks) \subseteq globalSelectedIds
            THEN globalSelectedIds' = globalSelectedIds \ Ids(artworks)
            ELSE globalSelectedIds' = globalSelectedIds \cup Ids(artworks)
    ]_vars

\* C13 (precondition violation is absorbed): when onSelectionChange is called
\* with a new selection holding a record that is not on the loaded page, the
\* membership of every identifier outside the loaded page, the offending one
\* included, is the same after the call as before it.
C13_OffPageRecordAbsorbed ==
  [][(lastOp' = "onSelectionChange" /\ ~(Ids(selectedRows') \subseteq Ids(artworks)))
       => \A i \in OffPage : (i \in globalSelectedIds') <=> (i \in globalSelectedIds)
    ]_vars

\* C14 (Selection Summary flags): allSelected and partialSelected are never
\* both true; allSelected is true exactly when the loaded page is non-empty and
\* all its records are in the Selection Set; partialSelected is true exactly
\* when at least one but not all records of the loaded page are in the
\* Selection Set; on an empty page both are false.
C14_SummaryFlags ==
  /\ ~(allSelected /\ partialSelected)
  /\ allSelected <=> (artworks # <<>> /\ Ids(artworks) \subseteq globalSelectedIds)
  /\ partialSelected <=> /\ Ids(artworks) \cap globalSelectedIds # {}
                         /\ ~(Ids(artworks) \subseteq globalSelectedIds)
  /\ artworks = <<>> => (~allSelected /\ ~partialSelected)

\* C15 (mutators never touch the Page): every step of onSelectionChange,
\* handleSelectAll and handleCustomSelection (a declined one too) leaves
\* artworks, totalRecords and currentPage unchanged and starts no fetch: the
\* requests in flight and the loading flag are the same after it.
C15_MutatorsKeepPage ==
  [][lastOp' \in Mutators \cup {"declined"} =>
       UNCHANGED <<artworks, totalRecords, currentPage, inflight, loading>>
    ]_vars

\* C15 witness: handleCustomSelection has just changed the selection of a
\* loaded page other than the first while a request was in flight.
C15_Witness ==
  /\ lastOp = "handleCustomSelection"
  /\ selectedRows # <<>>
  /\ currentPage # 1
  /\ artworks = Page(currentPage)
  /\ InFlight > 0

\* C16 (single-row toggle is local): when onSelectionChange is called with
\* selectedRows plus or minus one row r of the loaded page, as the table does
\* when the checkbox of r is toggled, the Selection Set after the call differs
\* from the one before in the membership of r only.
C16_SingleToggleLocal ==
  [][lastOp' = "onSelectionChange" =>
       \A r \in Ids(artworks) :
         (\/ r \notin Ids(selectedRows) /\ Ids(selectedRows') = Ids(selectedRows) \cup {r}
          \/ r \in Ids(selectedRows) /\ Ids(selectedRows') = Ids(selectedRows) \ {r})
           => \A i \in AllIds \ {r} : (i \in globalSelectedIds') <=> (i \in globalSelectedIds)
    ]_vars

\* C17 (loading flag tracks in-flight fetches): loading is true whenever at
\* least one page request is still in flight, and it is false once every
\* request that was started has resolved or failed.
C17_LoadingTracksFetches ==
  /\ InFlight > 0 => loading
  /\ InFlight = 0 => ~loading

\* C18 (second variant's bulk select is page-local): confirmSelectMultiple with
\* rowsToSelect = k makes the Selection Set (S minus the loaded page's
\* identifiers) plus the identifiers of the first k records of the loaded page,
\* so no identifier outside the loaded page changes membership; and for k > 0
\* selectedRows is the first min(k, page length) records in page order, the
\* view handleCustomSelection of the first variant gives for the same count.
C18_BulkSelectPageLocal ==
  [][\A k \in RowsToSelectInputs :
       (lastOp' = "confirmSelectMultiple" /\ confirmSelectMultiple(k)) =>
         LET m == Min(k, Len(artworks)) IN
         /\ globalSelectedIds' =
              (globalSelectedIds \ Ids(artworks)) \cup {artworks[i] : i \in 1..m}
         /\ \A i \in OffPage : (i \in globalSelectedIds') <=> (i \in globalSelectedIds)
         /\ k > 0 => selectedRows' = [i \in 1..m |-> artworks[i]]
    ]_vars

\* C18 witness: confirmSelectMultiple has just selected the first records, not
\* all, of the loaded page while a record of another page stays selected.
C18_Witness ==
  /\ lastOp = "confirmSelectMultiple"
  /\ selectedRows # <<>>
  /\ Len(selectedRows) < Len(artworks)
  /\ globalSelectedIds \cap Ids(artworks) = Ids(selectedRows)
  /\ globalSelectedIds \cap OffPage # {}
====
